---- MODULE Spec2Model ----
(***************************************************************************)
(* A model of the WB Ads auto scheduler (wb_ad_auto_scheduler.py) and of   *)
(* the request pacing of WB_SmartBid/executor.py.                          *)
(*                                                                         *)
(* Time is counted in clock ticks.  A day is scaled down: it has           *)
(* HoursPerDay hours of MinutesPerHour minutes of SecondsPerMinute seconds *)
(* of TicksPerSecond ticks.  A datetime is the record the fields of        *)
(* Python's datetime give; a time of day (datetime.time) is the record     *)
(* [hour, minute, second], ordered as Python orders it, field by field.    *)
(* A string is the sequence of its code points.                            *)
(***************************************************************************)
EXTENDS Integers, Sequences, FiniteSets, TLC

VARIABLES
    args,                 \* the arguments of the call under evaluation
    ret,                  \* its result, NoResult before the call returns
    clock,                \* wall-clock time (time.time(), datetime.now()), in ticks
    last_applied,         \* DecisionEngine.last_applied: advert_id -> <<desired, bucket>>
    qlog,                 \* the tracker queries made so far, with their answers
    lim,                  \* the rate limiter's fields
    lim_pc,               \* where the call inside the limiter is: "idle", "sleeping"
    calls,                \* the calls that entered the limiter, with their admission times
    cfg,                  \* the loaded Config: rules, rate_limit_per_second
    main_campaigns,       \* main's campaigns, built from the rules
    opts,                 \* the command line: dry_run, once, interval
    pc,                   \* where main is: "idle", "dispatching", "sleeping", "done", "exited"
    cycle,                \* one_cycle's locals: now, decisions, the next decision's index
    remote,               \* the state each campaign was last put in by a successful call
    api_log,              \* the control calls made so far
    log,                  \* the records main has handed to logging
    interrupted,          \* whether KeyboardInterrupt has been raised in main
    req,                  \* the client call in progress: _request's locals
    wire,                 \* the HTTP request attempts sent so far
    returns               \* the client calls that have returned or raised

callVars == <<args, ret>>
trackerVars == <<last_applied, qlog>>
limVars == <<lim, lim_pc, calls>>
schedVars == <<cfg, main_campaigns, opts, pc, cycle, remote, api_log, log, interrupted>>
reqVars == <<req, wire, returns>>
vars == <<args, ret, clock, last_applied, qlog, lim, lim_pc, calls,
          cfg, main_campaigns, opts, pc, cycle, remote, api_log, log, interrupted,
          req, wire, returns>>

\* a call's result is << >> before it returns and <<value>> after
NoResult == << >>
NoArgs == "NoArgs"
NoLimiter == "NoLimiter"

\* the parts of the state a specification does not use
NoCall == args = NoArgs /\ ret = NoResult
NoTracker == last_applied = << >> /\ qlog = << >>
NoLimit == lim = NoLimiter /\ lim_pc = "idle" /\ calls = << >>
NoScheduler ==
    /\ cfg = << >> /\ main_campaigns = << >> /\ opts = << >> /\ pc = "none"
    /\ cycle = << >> /\ remote = << >> /\ api_log = << >>
    /\ log = << >> /\ interrupted = FALSE
NoRequest == req = << >> /\ wire = << >> /\ returns = << >>
None == "None"

(***************************************************************************)
(* Bounds of the model.                                                    *)
(***************************************************************************)
TicksPerSecond == 2
SecondsPerMinute == 2
MinutesPerHour == 2
HoursPerDay == 2
MaxRules == 2
MaxPriority == 1

DaysPerWeek == 7

TicksPerMinute == SecondsPerMinute * TicksPerSecond
TicksPerHour == MinutesPerHour * TicksPerMinute
TicksPerDay == HoursPerDay * TicksPerHour

Actions == {"start", "pause", "stop"}

(***************************************************************************)
(* datetime: the fields of the instant `t` ticks after the midnight that   *)
(* starts day 0 (a Monday).                                                *)
(***************************************************************************)
DateTimeOf(t) ==
    [date    |-> t \div TicksPerDay,
     hour    |-> (t % TicksPerDay) \div TicksPerHour,
     minute  |-> (t % TicksPerHour) \div TicksPerMinute,
     second  |-> (t % TicksPerMinute) \div TicksPerSecond,
     tick    |-> t % TicksPerSecond,
     weekday |-> (t \div TicksPerDay) % DaysPerWeek]

dtime(h, m, s) == [hour |-> h, minute |-> m, second |-> s]

\* datetime.time ordering: hour, then minute, then second
time_lt(a, b) ==
    \/ a.hour < b.hour
    \/ a.hour = b.hour /\ a.minute < b.minute
    \/ a.hour = b.hour /\ a.minute = b.minute /\ a.second < b.second

time_le(a, b) == time_lt(a, b) \/ a = b

\* "HH:MM" is the pair <<HH, MM>> of its two fields
parse_time_hhmm_second_one(s) == dtime(s[1], s[2], 1)

parse_time_hhmm(s) == dtime(s[1], s[2], 0)

is_cross_day_ge(start_t, end_t) == ~time_lt(start_t, end_t)

is_cross_day(start_t, end_t) == time_lt(end_t, start_t)

time_in_range_closed(now_t, start_t, end_t) ==
    time_le(start_t, now_t) /\ time_le(now_t, end_t)

time_in_range(now_t, start_t, end_t) ==
    time_le(start_t, now_t) /\ time_lt(now_t, end_t)

time_in_crossday_range_and(now_t, start_t, end_t) ==
    time_le(start_t, now_t) /\ time_lt(now_t, end_t)

time_in_crossday_range(now_t, start_t, end_t) ==
    time_le(start_t, now_t) \/ time_lt(now_t, end_t)

weekday_int(dt) == dt.weekday + 1

\* parse_time_hhmm raises ValueError: s does not split at ":" into two
\* parts, or datetime.time refuses the hour or the minute
parse_time_hhmm_raises(s) ==
    \/ Len(s) # 2
    \/ s[1] \notin 0 .. (HoursPerDay - 1)
    \/ s[2] \notin 0 .. (MinutesPerHour - 1)

\* _period_match raises: it parses both times once the weekday is listed
_period_match_raises(wd, period, rule_weekdays) ==
    /\ wd \in rule_weekdays
    /\ parse_time_hhmm_raises(period.start) \/ parse_time_hhmm_raises(period.end)

_period_match_shifted(now_t, wd, period, rule_weekdays) ==
    LET st == parse_time_hhmm(period.start)
        et == parse_time_hhmm(period.end)
        day == IF is_cross_day(st, et) /\ time_lt(now_t, et)
               THEN (IF wd = 1 THEN DaysPerWeek ELSE wd - 1)
               ELSE wd
    IN  /\ day \in rule_weekdays
        /\ IF ~is_cross_day(st, et)
           THEN time_in_range(now_t, st, et)
           ELSE time_in_crossday_range(now_t, st, et)

_period_match(now_t, wd, period, rule_weekdays) ==
    IF wd \notin rule_weekdays
    THEN FALSE
    ELSE LET st == parse_time_hhmm(period.start)
             et == parse_time_hhmm(period.end)
         IN  IF ~is_cross_day(st, et)
             THEN time_in_range(now_t, st, et)
             ELSE time_in_crossday_range(now_t, st, et)

(***************************************************************************)
(* Inputs of the period specification.                                     *)
(***************************************************************************)
Hours == 0 .. (HoursPerDay - 1)
Minutes == 0 .. (MinutesPerHour - 1)
Seconds == 0 .. (SecondsPerMinute - 1)
HHMM == Hours \X Minutes
TimesOfDay == {dtime(h, m, s) : h \in Hours, m \in Minutes, s \in Seconds}
Weekdays == 1 .. DaysPerWeek
WeekdaySets == {{}, {1}, {2}, {1, 2}, {5}}

PeriodArgs ==
    [now_t : TimesOfDay, wd : {1, 2, 5, 6}, rule_weekdays : WeekdaySets,
     period : [start : HHMM, end : HHMM, action : {"start"}]]

InitPeriod ==
    /\ args \in PeriodArgs
    /\ ret = NoResult
    /\ clock = 0
    /\ NoTracker
    /\ NoLimit
    /\ NoScheduler
    /\ NoRequest

CallPeriodMatch ==
    /\ ret = NoResult
    /\ ret' = <<_period_match(args.now_t, args.wd, args.period, args.rule_weekdays)>>
    /\ UNCHANGED <<args, clock, reqVars, trackerVars, limVars, schedVars>>

NextPeriod == CallPeriodMatch

SpecPeriod == InitPeriod /\ [][NextPeriod]_vars

\* seconds since midnight of a time of day, and of an "HH:MM" string
SecondOfDay(t) == (t.hour * MinutesPerHour + t.minute) * SecondsPerMinute + t.second
SecondOfHHMM(s) == (s[1] * MinutesPerHour + s[2]) * SecondsPerMinute

\* C7: a period with start <= end, on a listed weekday, matches exactly when
\* start <= now < end: it matches at now = start (when start < end) and does
\* not match at now = end.
C7_SameDayHalfOpen ==
    (/\ ret # NoResult
     /\ args.wd \in args.rule_weekdays
     /\ SecondOfHHMM(args.period.start) <= SecondOfHHMM(args.period.end))
    => LET s == SecondOfHHMM(args.period.start)
           e == SecondOfHHMM(args.period.end)
           n == SecondOfDay(args.now_t)
       IN  /\ ret[1] = (s <= n /\ n < e)
           /\ (n = e => ret[1] = FALSE)
           /\ (n = s /\ s < e => ret[1] = TRUE)

C7_Witness ==
    /\ ret = <<TRUE>>
    /\ args.wd \in args.rule_weekdays
    /\ SecondOfHHMM(args.period.start) < SecondOfHHMM(args.period.end)
    /\ SecondOfDay(args.now_t) = SecondOfHHMM(args.period.start)

\* C8: a cross-midnight period (start > end), on a listed weekday, matches
\* exactly when now >= start or now < end: it matches at now = start and does
\* not match at now = end.
C8_CrossMidnightUnion ==
    (/\ ret # NoResult
     /\ args.wd \in args.rule_weekdays
     /\ SecondOfHHMM(args.period.start) > SecondOfHHMM(args.period.end))
    => LET s == SecondOfHHMM(args.period.start)
           e == SecondOfHHMM(args.period.end)
           n == SecondOfDay(args.now_t)
       IN  /\ ret[1] = (n >= s \/ n < e)
           /\ (n = e => ret[1] = FALSE)
           /\ (n = s => ret[1] = TRUE)

C8_Witness ==
    /\ ret = <<TRUE>>
    /\ args.wd \in args.rule_weekdays
    /\ SecondOfHHMM(args.period.start) > SecondOfHHMM(args.period.end)
    /\ SecondOfDay(args.now_t) < SecondOfHHMM(args.period.end)

BadDate == -1

Range(s) == {s[i] : i \in DOMAIN s}

\* Python's str ordering: by code point, a proper prefix first
RECURSIVE str_lt(_, _)
str_lt(a, b) ==
    IF a = << >> THEN b # << >>
    ELSE IF b = << >> THEN FALSE
    ELSE IF a[1] # b[1] THEN a[1] < b[1]
    ELSE str_lt(Tail(a), Tail(b))

startswith(s, prefix) ==
    /\ Len(prefix) <= Len(s)
    /\ SubSeq(s, 1, Len(prefix)) = prefix

CampaignMeta(id) == [advert_id |-> id, name |-> << >>, tags |-> << >>]

Decision(id, desired, rule_name, priority) ==
    [advert_id |-> id, desired |-> desired, rule_name |-> rule_name,
     priority |-> priority]

_date_in_excluded_never(dt, rule) == FALSE

_date_in_excluded(dt, rule) ==
    \E i \in DOMAIN rule.exclude_dates :
        /\ rule.exclude_dates[i] # BadDate
        /\ rule.exclude_dates[i] = dt.date

_targets_match_prefix_required(c, t) ==
    IF t.type = "ids"
    THEN c.advert_id \in Range(IF t.ids = None THEN << >> ELSE t.ids)
    ELSE IF t.type = "name_prefix"
    THEN /\ t.name_prefix # None
         /\ t.name_prefix # << >>
         /\ startswith(c.name, t.name_prefix)
    ELSE IF t.type = "tags"
    THEN Range(IF t.tags = None THEN << >> ELSE t.tags) \cap Range(c.tags) # {}
    ELSE FALSE

_targets_match(c, t) ==
    IF t.type = "ids"
    THEN c.advert_id \in Range(IF t.ids = None THEN << >> ELSE t.ids)
    ELSE IF t.type = "name_prefix"
    THEN startswith(c.name, IF t.name_prefix = None THEN << >> ELSE t.name_prefix)
    ELSE IF t.type = "tags"
    THEN Range(IF t.tags = None THEN << >> ELSE t.tags) \cap Range(c.tags) # {}
    ELSE FALSE

\* the sort key (d.priority, d.rule_name), compared as Python compares tuples
key_lt_priority_only(a, b) == a.priority < b.priority

key_lt(a, b) ==
    \/ a.priority < b.priority
    \/ a.priority = b.priority /\ str_lt(a.rule_name, b.rule_name)

\* candidates.sort(key=..., reverse=True): descending, equal keys keep their order
RECURSIVE insert_desc(_, _)
insert_desc(d, s) ==
    IF s = << >> THEN <<d>>
    ELSE IF key_lt(Head(s), d) THEN <<d>> \o s
    ELSE <<Head(s)>> \o insert_desc(d, Tail(s))

RECURSIVE insert_asc(_, _)
insert_asc(d, s) ==
    IF s = << >> THEN <<d>>
    ELSE IF key_lt(d, Head(s)) THEN <<d>> \o s
    ELSE <<Head(s)>> \o insert_asc(d, Tail(s))

sort_ascending(cs) ==
    LET S[i \in 0 .. Len(cs)] ==
            IF i = 0 THEN << >> ELSE insert_asc(cs[i], S[i - 1])
    IN  S[Len(cs)]

RECURSIVE insert_desc_before_ties(_, _)
insert_desc_before_ties(d, s) ==
    IF s = << >> THEN <<d>>
    ELSE IF ~key_lt(d, Head(s)) THEN <<d>> \o s
    ELSE <<Head(s)>> \o insert_desc_before_ties(d, Tail(s))

sort_reverse_unstable(cs) ==
    LET S[i \in 0 .. Len(cs)] ==
            IF i = 0 THEN << >> ELSE insert_desc_before_ties(cs[i], S[i - 1])
    IN  S[Len(cs)]

sort_reverse(cs) ==
    LET S[i \in 0 .. Len(cs)] ==
            IF i = 0 THEN << >> ELSE insert_desc(cs[i], S[i - 1])
    IN  S[Len(cs)]

\* the inner loop of decide: the matching periods of rule r, in their order
period_candidates(c, r, now_t, wd) ==
    LET P[i \in 0 .. Len(r.periods)] ==
            IF i = 0 THEN << >>
            ELSE IF _period_match(now_t, wd, r.periods[i], r.weekdays)
                 THEN Append(P[i - 1],
                             Decision(c.advert_id, r.periods[i].action, r.name, r.priority))
                 ELSE P[i - 1]
    IN  P[Len(r.periods)]

candidates_of_disabled_too(now_dt, c, rules) ==
    LET wd == weekday_int(now_dt)
        now_t == dtime(now_dt.hour, now_dt.minute, now_dt.second)
        R[i \in 0 .. Len(rules)] ==
            IF i = 0 THEN << >>
            ELSE IF \/ _date_in_excluded(now_dt, rules[i])
                    \/ ~_targets_match(c, rules[i].targets)
                 THEN R[i - 1]
                 ELSE R[i - 1] \o period_candidates(c, rules[i], now_t, wd)
    IN  R[Len(rules)]

\* the candidates decide collects for campaign c, in the order it appends them
candidates(now_dt, c, rules) ==
    LET wd == weekday_int(now_dt)
        now_t == dtime(now_dt.hour, now_dt.minute, now_dt.second)
        R[i \in 0 .. Len(rules)] ==
            IF i = 0 THEN << >>
            ELSE IF \/ ~rules[i].enabled
                    \/ _date_in_excluded(now_dt, rules[i])
                    \/ ~_targets_match(c, rules[i].targets)
                 THEN R[i - 1]
                 ELSE R[i - 1] \o period_candidates(c, rules[i], now_t, wd)
    IN  R[Len(rules)]

\* decide raises: nothing in it catches what _period_match raises, for any
\* period of a rule that passes the three tests of the rule loop
decide_raises(now_dt, campaigns, rules) ==
    \E i \in DOMAIN campaigns, n \in DOMAIN rules :
        /\ rules[n].enabled
        /\ ~_date_in_excluded(now_dt, rules[n])
        /\ _targets_match(campaigns[i], rules[n].targets)
        /\ \E j \in DOMAIN rules[n].periods :
              _period_match_raises(weekday_int(now_dt), rules[n].periods[j],
                                   rules[n].weekdays)

decide_all_candidates(now_dt, campaigns, rules) ==
    LET D[i \in 0 .. Len(campaigns)] ==
            IF i = 0 THEN << >>
            ELSE D[i - 1] \o sort_reverse(candidates(now_dt, campaigns[i], rules))
    IN  D[Len(campaigns)]

decide_default_pause(now_dt, campaigns, rules) ==
    LET D[i \in 0 .. Len(campaigns)] ==
            IF i = 0 THEN << >>
            ELSE LET cs == candidates(now_dt, campaigns[i], rules)
                 IN  IF cs # << >>
                     THEN Append(D[i - 1], sort_reverse(cs)[1])
                     ELSE Append(D[i - 1],
                                 Decision(campaigns[i].advert_id, "pause", << >>, 0))
    IN  D[Len(campaigns)]

decide_prepend(now_dt, campaigns, rules) ==
    LET D[i \in 0 .. Len(campaigns)] ==
            IF i = 0 THEN << >>
            ELSE LET cs == candidates(now_dt, campaigns[i], rules)
                 IN  IF cs # << >>
                     THEN <<sort_reverse(cs)[1]>> \o D[i - 1]
                     ELSE D[i - 1]
    IN  D[Len(campaigns)]

\* DecisionEngine.decide; rules is self.cfg.rules
decide(now_dt, campaigns, rules) ==
    LET D[i \in 0 .. Len(campaigns)] ==
            IF i = 0 THEN << >>
            ELSE LET cs == candidates(now_dt, campaigns[i], rules)
                 IN  IF cs # << >>
                     THEN Append(D[i - 1], sort_reverse(cs)[1])
                     ELSE D[i - 1]
    IN  D[Len(campaigns)]

(***************************************************************************)
(* Inputs of the decide specification: up to MaxRules rules over two       *)
(* campaigns, with names that tie, or are prefixes of one another, and     *)
(* periods that overlap, evaluated at instants where one, the other or     *)
(* both periods match.                                                     *)
(***************************************************************************)
SeqsUpTo(S, n) == UNION {[1 .. k -> S] : k \in 0 .. n}

IdsTarget(ids) == [type |-> "ids", ids |-> ids, name_prefix |-> None, tags |-> None]

RuleNames == {<<1>>, <<1, 2>>, <<2>>}

HourZero == [start |-> <<0, 0>>, end |-> <<1, 0>>, action |-> "start"]
AllButFirstMinute == [start |-> <<0, 1>>, end |-> <<0, 0>>, action |-> "pause"]
PeriodLists == {<<HourZero>>, <<AllButFirstMinute>>, <<HourZero, AllButFirstMinute>>}

DecideRules ==
    [name : RuleNames, targets : {IdsTarget(<<1, 2>>)}, weekdays : {Weekdays},
     periods : PeriodLists, exclude_dates : {<< >>}, priority : 0 .. MaxPriority,
     enabled : {TRUE}]

DecideCampaigns ==
    {<< >>, <<CampaignMeta(1)>>, <<CampaignMeta(1), CampaignMeta(1)>>,
     <<CampaignMeta(2), CampaignMeta(1)>>, <<CampaignMeta(3), CampaignMeta(1)>>}

DecideInstants == {0, TicksPerMinute + 1, TicksPerHour, TicksPerDay + TicksPerMinute}

InitDecide ==
    /\ args \in [now_dt : {DateTimeOf(t) : t \in DecideInstants},
                 campaigns : DecideCampaigns,
                 rules : SeqsUpTo(DecideRules, MaxRules)]
    /\ ret = NoResult
    /\ clock = 0
    /\ NoTracker
    /\ NoLimit
    /\ NoScheduler
    /\ NoRequest

CallDecide ==
    /\ ret = NoResult
    /\ ret' = <<decide(args.now_dt, args.campaigns, args.rules)>>
    /\ UNCHANGED <<args, clock, reqVars, trackerVars, limVars, schedVars>>

NextDecide == CallDecide

SpecDecide == InitDecide /\ [][NextDecide]_vars

\* the matching candidates of campaign c: one for every period matching now of
\* every enabled, non-excluded rule whose targets match c
CandidateSet(now_dt, c, rules) ==
    UNION {
        {Decision(c.advert_id, rules[i].periods[j].action, rules[i].name, rules[i].priority) :
            j \in {k \in DOMAIN rules[i].periods :
                      _period_match(dtime(now_dt.hour, now_dt.minute, now_dt.second),
                                    weekday_int(now_dt),
                                    rules[i].periods[k], rules[i].weekdays)}} :
        i \in {n \in DOMAIN rules :
                  /\ rules[n].enabled
                  /\ ~_date_in_excluded(now_dt, rules[n])
                  /\ _targets_match(c, rules[n].targets)}}

Count(s, P(_)) == Cardinality({i \in DOMAIN s : P(s[i])})

\* C4 as stated: decide returns at most one Decision per resource id, also when
\* the resource sequence lists an id more than once.
C4_AtMostOnePerId ==
    ret # NoResult =>
        \A i, j \in DOMAIN ret[1] :
            ret[1][i].advert_id = ret[1][j].advert_id => i = j

\* C4 as amended: decide returns at most one Decision per element of the resource
\* sequence, so an id has at most as many Decisions as the sequence lists it,
\* and at most one when the sequence lists it once.
C4_AtMostOnePerListedResource ==
    ret # NoResult =>
        \A id \in {c.advert_id : c \in Range(args.campaigns)} \cup
                  {d.advert_id : d \in Range(ret[1])} :
            LET HasId(x) == x.advert_id = id
            IN  Count(ret[1], HasId) <= Count(args.campaigns, HasId)

C4_Witness ==
    /\ ret # NoResult
    /\ Len(args.campaigns) = 2
    /\ Len(ret[1]) = 2
    /\ ret[1][1].advert_id # ret[1][2].advert_id
    /\ Cardinality(CandidateSet(args.now_dt, args.campaigns[1], args.rules)) > 1

\* C5: the Decision of a resource with matching candidates is one of them, and
\* its priority is the maximum among all matching candidates of that resource.
C5_MaxPriorityWins ==
    ret # NoResult =>
        /\ \A c \in Range(args.campaigns) :
              CandidateSet(args.now_dt, c, args.rules) # {} =>
                  \E d \in Range(ret[1]) : d.advert_id = c.advert_id
        /\ \A d \in Range(ret[1]) :
              \E c \in Range(args.campaigns) :
                  /\ c.advert_id = d.advert_id
                  /\ d \in CandidateSet(args.now_dt, c, args.rules)
                  /\ \A x \in CandidateSet(args.now_dt, c, args.rules) :
                        x.priority <= d.priority

C5_Witness ==
    /\ ret # NoResult
    /\ Len(ret[1]) = 1
    /\ \E x \in CandidateSet(args.now_dt, args.campaigns[1], args.rules) :
          /\ x.priority < ret[1][1].priority
          /\ x.desired # ret[1][1].desired
    /\ args.rules[1].priority < args.rules[2].priority

\* C6: among the matching candidates that tie with the Decision on priority, none
\* has a rule name lexicographically greater than the Decision's.
C6_TieBrokenByGreatestName ==
    ret # NoResult =>
        \A d \in Range(ret[1]) :
            \A c \in Range(args.campaigns) :
                c.advert_id = d.advert_id =>
                    \A x \in CandidateSet(args.now_dt, c, args.rules) :
                        x.priority = d.priority => ~str_lt(d.rule_name, x.rule_name)

C6_Witness ==
    /\ ret # NoResult
    /\ Len(ret[1]) = 1
    /\ Len(args.rules) = 2
    /\ args.rules[1].priority = args.rules[2].priority
    /\ args.rules[1].name = <<1, 2>>
    /\ args.rules[2].name = <<1>>
    /\ Cardinality({x.rule_name :
                       x \in CandidateSet(args.now_dt, args.campaigns[1], args.rules)}) = 2
    /\ ret[1][1].rule_name = <<1, 2>>

(***************************************************************************)
(* Inputs of the rules specification: decide over rule lists made of a     *)
(* subject rule, whose targets, weekdays, periods, excluded dates and      *)
(* enabled flag vary, alone or before or after a rule of lower priority    *)
(* that matches campaigns 1 and 2 at every time of every day.              *)
(***************************************************************************)
ZeroWidth == [start |-> <<0, 1>>, end |-> <<0, 1>>, action |-> "stop"]

NamedCampaign == [advert_id |-> 3, name |-> <<1, 2>>, tags |-> <<7>>]

\* a targets mapping that spells every key: ids: [...], name_prefix: "...",
\* tags: [...]
Target(type, ids, name_prefix, tags) ==
    [type |-> type, ids |-> ids, name_prefix |-> name_prefix, tags |-> tags]

SubjectTargets ==
    {Target("ids", <<1>>, << >>, << >>), Target("ids", <<1, 2>>, << >>, << >>),
     Target("name_prefix", << >>, <<1>>, << >>),
     Target("tags", << >>, << >>, <<7, 8>>)}

SubjectRules ==
    [name : {<<1>>}, targets : SubjectTargets, weekdays : {{}, {1}, Weekdays},
     periods : {<< >>, <<HourZero>>, <<ZeroWidth>>, <<ZeroWidth, AllButFirstMinute>>},
     exclude_dates : {<< >>, <<0>>, <<BadDate, 1>>}, priority : {1},
     enabled : BOOLEAN]

AlwaysRule ==
    [name |-> <<2>>, targets |-> Target("ids", <<1, 2>>, << >>, << >>),
     weekdays |-> Weekdays, periods |-> <<HourZero, AllButFirstMinute>>,
     exclude_dates |-> << >>, priority |-> 0, enabled |-> TRUE]

\* rules of one name and one priority whose periods overlap
TiedRules ==
    [name : {<<1>>}, targets : {Target("ids", <<1, 2>>, << >>, << >>)},
     weekdays : {Weekdays},
     periods : {<<HourZero>>, <<AllButFirstMinute>>, <<AllButFirstMinute, HourZero>>},
     exclude_dates : {<< >>}, priority : {1}, enabled : {TRUE}]

RulesLists ==
    {<< >>} \cup {<<r>> : r \in SubjectRules}
            \cup {<<r, AlwaysRule>> : r \in SubjectRules}
            \cup {<<AlwaysRule, r>> : r \in SubjectRules}
            \cup {<<a>> : a \in TiedRules}
            \cup {<<a, b>> : a, b \in TiedRules}

RulesCampaigns ==
    {<< >>, <<CampaignMeta(1)>>, <<CampaignMeta(1), CampaignMeta(2)>>,
     <<NamedCampaign, CampaignMeta(2)>>}

RulesInstants ==
    {0, TicksPerMinute + 1, TicksPerHour, TicksPerHour + TicksPerMinute,
     TicksPerDay + TicksPerMinute}

InitRules ==
    /\ args \in [now_dt : {DateTimeOf(t) : t \in RulesInstants},
                 campaigns : RulesCampaigns,
                 rules : RulesLists]
    /\ ret = NoResult
    /\ clock = 0
    /\ NoTracker
    /\ NoLimit
    /\ NoScheduler
    /\ NoRequest

SpecRules == InitRules /\ [][NextDecide]_vars

\* the rules of a list that satisfy P, in their order
RulesWhere(rules, P(_)) == SelectSeq(rules, P)

IsEnabled(r) == r.enabled
ListsToday(r) == \E i \in DOMAIN r.exclude_dates : r.exclude_dates[i] = args.now_dt.date
NotListingToday(r) == ~ListsToday(r)

\* the rule names of the Decisions returned
DecidedBy == {d.rule_name : d \in Range(ret[1])}

\* C22: decide returns what it returns for the rule list without its
\* disabled rules, and no Decision comes from a disabled rule.
C22_DisabledRuleInert ==
    ret # NoResult =>
        /\ ret[1] = decide(args.now_dt, args.campaigns, RulesWhere(args.rules, IsEnabled))
        /\ \A r \in Range(args.rules) : ~r.enabled => r.name \notin DecidedBy

C22_Witness ==
    /\ ret # NoResult
    /\ Len(args.rules) = 2
    /\ ~args.rules[2].enabled
    /\ ret[1] # << >>
    /\ decide(args.now_dt, args.campaigns,
              <<args.rules[1], [args.rules[2] EXCEPT !.enabled = TRUE]>>) # ret[1]

\* C23: decide returns what it returns for the rule list without the rules
\* whose exclude_dates list now's date, and no Decision comes from such a
\* rule; the other rules' Decisions are those they give without it.
C23_ExcludedDateSuppressesRule ==
    ret # NoResult =>
        /\ ret[1] = decide(args.now_dt, args.campaigns,
                           RulesWhere(args.rules, NotListingToday))
        /\ \A r \in Range(args.rules) : ListsToday(r) => r.name \notin DecidedBy

C23_Witness ==
    /\ ret # NoResult
    /\ Len(args.rules) = 2
    /\ ListsToday(args.rules[1])
    /\ args.rules[1].exclude_dates[1] = BadDate
    /\ args.rules[1].enabled
    /\ ret[1] # << >>
    /\ decide(args.now_dt, args.campaigns,
              <<[args.rules[1] EXCEPT !.exclude_dates = << >>], args.rules[2]>>) # ret[1]

\* C27: the result has a Decision for a listed resource exactly when the
\* resource has a matching candidate, at most one Decision per listed
\* resource and none for any other id; an empty list gives an empty result.
C27_DecisionIffCandidate ==
    ret # NoResult =>
        /\ \A c \in Range(args.campaigns) :
              (\E d \in Range(ret[1]) : d.advert_id = c.advert_id)
              <=> CandidateSet(args.now_dt, c, args.rules) # {}
        /\ \A d \in Range(ret[1]) :
              \E c \in Range(args.campaigns) : c.advert_id = d.advert_id
        /\ Len(ret[1]) <= Len(args.campaigns)
        /\ args.campaigns = << >> => ret[1] = << >>

C27_Witness ==
    /\ ret # NoResult
    /\ Len(args.campaigns) = 2
    /\ Len(ret[1]) = 1
    /\ ret[1][1].advert_id = args.campaigns[2].advert_id
    /\ args.rules # << >>

\* C28: no Decision comes from a rule with no weekdays or no periods, nor
\* from a period whose start equals its end: every Decision has the action
\* of a period of its rule whose start and end differ.
C28_EmptyNeverMatches ==
    ret # NoResult =>
        /\ \A r \in Range(args.rules) :
              (\/ r.weekdays = {}
               \/ r.periods = << >>
               \/ \A i \in DOMAIN r.periods : r.periods[i].start = r.periods[i].end)
              => r.name \notin DecidedBy
        /\ \A d \in Range(ret[1]) :
              \E r \in Range(args.rules) :
                  /\ r.name = d.rule_name
                  /\ \E i \in DOMAIN r.periods :
                        /\ r.periods[i].action = d.desired
                        /\ r.periods[i].start # r.periods[i].end

C28_Witness ==
    /\ ret # NoResult
    /\ args.rules # << >>
    /\ args.rules[1].periods = <<ZeroWidth>>
    /\ args.rules[1].weekdays = Weekdays
    /\ args.rules[1].enabled
    /\ args.rules[1].exclude_dates = << >>
    /\ args.now_dt.hour = 0 /\ args.now_dt.minute = 1 /\ args.now_dt.second = 0
    /\ \E c \in Range(args.campaigns) : _targets_match(c, args.rules[1].targets)
    /\ <<1>> \notin DecidedBy

(***************************************************************************)
(* The idempotency tracker: DecisionEngine.last_applied and                *)
(* should_skip_idempotent.  A bucket is the text of "%Y-%m-%d %H:%M": the  *)
(* date, the hour and the minute.                                          *)
(***************************************************************************)
strftime_minute(now_dt) == <<now_dt.date, now_dt.hour, now_dt.minute>>

should_skip_never(la, advert_id, desired, now_dt) == FALSE

should_skip_same_action(la, advert_id, desired, now_dt) ==
    /\ advert_id \in DOMAIN la
    /\ la[advert_id][1] = desired

\* the value should_skip_idempotent returns
should_skip_idempotent(la, advert_id, desired, now_dt) ==
    /\ advert_id \in DOMAIN la
    /\ la[advert_id][1] = desired
    /\ la[advert_id][2] = strftime_minute(now_dt)

last_applied_not_recorded(la, advert_id, desired, now_dt) == la

last_applied_only_latest(la, advert_id, desired, now_dt) ==
    IF should_skip_idempotent(la, advert_id, desired, now_dt)
    THEN la
    ELSE [k \in {advert_id} |-> <<desired, strftime_minute(now_dt)>>]

last_applied_pruned(la, advert_id, desired, now_dt) ==
    IF should_skip_idempotent(la, advert_id, desired, now_dt)
    THEN la
    ELSE [k \in {j \in DOMAIN la : la[j][2] = strftime_minute(now_dt)} \cup {advert_id} |->
             IF k = advert_id THEN <<desired, strftime_minute(now_dt)>> ELSE la[k]]

\* self.last_applied when should_skip_idempotent returns
last_applied_after(la, advert_id, desired, now_dt) ==
    IF should_skip_idempotent(la, advert_id, desired, now_dt)
    THEN la
    ELSE [k \in DOMAIN la \cup {advert_id} |->
             IF k = advert_id THEN <<desired, strftime_minute(now_dt)>> ELSE la[k]]

QueryRecord(advert_id, desired, at, skip) ==
    [advert_id |-> advert_id, desired |-> desired, at |-> at, skip |-> skip]

(***************************************************************************)
(* The tracker specification: queries for two resources and two actions,   *)
(* over two consecutive minutes that start at midnight of day 0 or at the  *)
(* last minute of day 0.                                                   *)
(***************************************************************************)
MaxQueries == 3

TrackerStarts == {0, TicksPerDay - TicksPerMinute}
TrackerIds == {1, 2}
TrackerActions == {"start", "pause"}

InTrackerWindow(t) ==
    \E s \in TrackerStarts : s <= t /\ t < s + 2 * TicksPerMinute

InitTracker ==
    /\ NoCall
    /\ clock \in TrackerStarts
    /\ last_applied = << >>
    /\ qlog = << >>
    /\ NoLimit
    /\ NoScheduler
    /\ NoRequest

\* time passes: a second, or the rest of the minute
TrackerTick ==
    /\ \E t \in {clock + TicksPerSecond,
                 (clock \div TicksPerMinute + 1) * TicksPerMinute} :
          /\ InTrackerWindow(t)
          /\ clock' = t
    /\ UNCHANGED <<callVars, reqVars, trackerVars, limVars, schedVars>>

TrackerQuery ==
    /\ Len(qlog) < MaxQueries
    /\ \E id \in TrackerIds, desired \in TrackerActions :
          LET now_dt == DateTimeOf(clock)
          IN  /\ qlog' = Append(qlog,
                     QueryRecord(id, desired, clock,
                                 should_skip_idempotent(last_applied, id, desired, now_dt)))
              /\ last_applied' = last_applied_after(last_applied, id, desired, now_dt)
    /\ UNCHANGED <<callVars, reqVars, clock, limVars, schedVars>>

NextTracker == TrackerTick \/ TrackerQuery

SpecTracker == InitTracker /\ [][NextTracker]_vars

\* the number of the minute an instant lies in
MinuteOf(t) == t \div TicksPerMinute

\* the query before query j for the same resource, 0 when there is none
PriorQuery(j) ==
    LET before == {k \in 1 .. (j - 1) : qlog[k].advert_id = qlog[j].advert_id}
    IN  IF before = {} THEN 0 ELSE CHOOSE k \in before : \A m \in before : m <= k

\* C2: of two consecutive queries for the same resource with the same action,
\* the second answers skip when it falls in the minute of the first, and
\* answers dispatch when it falls in the next minute; the first query for a
\* resource answers dispatch, so on a fresh tracker the answers are dispatch
\* then skip, or dispatch then dispatch.
C2_DispatchThenSkip ==
    \A j \in DOMAIN qlog :
        LET i == PriorQuery(j)
        IN  /\ i = 0 => ~qlog[j].skip
            /\ (i # 0 /\ qlog[i].desired = qlog[j].desired) =>
                  /\ MinuteOf(qlog[j].at) = MinuteOf(qlog[i].at) => qlog[j].skip
                  /\ MinuteOf(qlog[j].at) = MinuteOf(qlog[i].at) + 1 => ~qlog[j].skip

C2_Witness ==
    /\ Len(qlog) = 3
    /\ qlog[1].advert_id = qlog[2].advert_id /\ qlog[2].advert_id = qlog[3].advert_id
    /\ qlog[1].desired = qlog[2].desired /\ qlog[2].desired = qlog[3].desired
    /\ MinuteOf(qlog[2].at) = MinuteOf(qlog[1].at)
    /\ MinuteOf(qlog[3].at) = MinuteOf(qlog[2].at) + 1
    /\ ~qlog[1].skip /\ qlog[2].skip /\ ~qlog[3].skip
    /\ DateTimeOf(qlog[3].at).date # DateTimeOf(qlog[2].at).date

C25_Step ==
    qlog' # qlog =>
        LET q == qlog'[Len(qlog')]
        IN  IF q.skip
            THEN last_applied' = last_applied
            ELSE /\ DOMAIN last_applied' = DOMAIN last_applied \cup {q.advert_id}
                 /\ last_applied'[q.advert_id] =
                        <<q.desired, strftime_minute(DateTimeOf(q.at))>>
                 /\ \A k \in DOMAIN last_applied \ {q.advert_id} :
                       last_applied'[k] = last_applied[k]

\* C25: a query that answers skip leaves last_applied as it is; a query that
\* answers dispatch sets its resource's entry to (desired, bucket of now)
\* and leaves every other entry as it is.
C25_QueryFrame == [][C25_Step]_vars

C25_Witness ==
    /\ Len(qlog) = 3
    /\ qlog[1].advert_id = 1 /\ ~qlog[1].skip
    /\ qlog[2].advert_id = 2 /\ ~qlog[2].skip
    /\ qlog[3].advert_id = 2 /\ qlog[3].skip
    /\ DOMAIN last_applied = {1, 2}

\* the dispatch answers given for a resource
DispatchAnswers(id) == {k \in DOMAIN qlog : qlog[k].advert_id = id /\ ~qlog[k].skip}

C30_KeysAreDispatched ==
    /\ DOMAIN last_applied = {qlog[k].advert_id : k \in {j \in DOMAIN qlog : ~qlog[j].skip}}
    /\ \A id \in DOMAIN last_applied :
          LET last == CHOOSE k \in DispatchAnswers(id) :
                          \A j \in DispatchAnswers(id) : j <= k
          IN  last_applied[id] =
                  <<qlog[last].desired, strftime_minute(DateTimeOf(qlog[last].at))>>

\* C30: the keys of last_applied are the resources that got a dispatch
\* answer, each entry is the one the resource's latest dispatch answer
\* stored, and no step removes a key.
C30_KeysOnlyGrow ==
    /\ []C30_KeysAreDispatched
    /\ [][DOMAIN last_applied \subseteq DOMAIN last_applied']_vars

C30_Witness ==
    /\ Len(qlog) = 3
    /\ qlog[1].advert_id = 1
    /\ qlog[2].advert_id = 2
    /\ qlog[3].advert_id = 1 /\ ~qlog[3].skip
    /\ qlog[3].desired = qlog[1].desired
    /\ MinuteOf(qlog[3].at) > MinuteOf(qlog[2].at)
    /\ DOMAIN last_applied = {1, 2}

(***************************************************************************)
(* Request pacing: WBClient._respect_rate_limit and, in WB_SmartBid,       *)
(* RateLimiter.wait_if_needed.  `now` is time.time() on entry and `woke`   *)
(* is time.time() after time.sleep; int(t) is the second t lies in.        *)
(***************************************************************************)
int_seconds(t) == t \div TicksPerSecond

\* sleep_time = 1 - (now - int(now))
sleep_time(now) == TicksPerSecond - (now - int_seconds(now) * TicksPerSecond)

WBClient_init(rate_limit_per_sec) ==
    [kind |-> "WBClient",
     rate_limit_per_sec |-> IF rate_limit_per_sec > 1 THEN rate_limit_per_sec ELSE 1,
     last_ts |-> 0,
     requests_in_current_second |-> 0]

respect_new_second_keeps_count(c, now) ==
    IF int_seconds(now) # int_seconds(c.last_ts)
    THEN [c EXCEPT !.last_ts = now]
    ELSE c

\* the first if of _respect_rate_limit: a new second resets the counter
respect_new_second(c, now) ==
    IF int_seconds(now) # int_seconds(c.last_ts)
    THEN [c EXCEPT !.last_ts = now, !.requests_in_current_second = 0]
    ELSE c

respect_must_sleep_gt(c, now) ==
    respect_new_second(c, now).requests_in_current_second > c.rate_limit_per_sec

\* whether _respect_rate_limit finds the second's limit used up
respect_must_sleep(c, now) ==
    respect_new_second(c, now).requests_in_current_second >= c.rate_limit_per_sec

\* the client's fields when _respect_rate_limit returns
_respect_rate_limit(c, now, woke) ==
    LET c1 == respect_new_second(c, now)
        c2 == IF respect_must_sleep(c, now)
              THEN [c1 EXCEPT !.last_ts = woke, !.requests_in_current_second = 0]
              ELSE c1
    IN  [c2 EXCEPT !.requests_in_current_second = @ + 1]

RateLimiter_init(per_second, now) ==
    [kind |-> "RateLimiter",
     per_second |-> per_second,
     requests_in_current_second |-> 0,
     current_second |-> int_seconds(now)]

wait_new_second(r, now) ==
    IF int_seconds(now) # r.current_second
    THEN [r EXCEPT !.current_second = int_seconds(now), !.requests_in_current_second = 0]
    ELSE r

wait_must_sleep(r, now) ==
    wait_new_second(r, now).requests_in_current_second >= r.per_second

\* the limiter's fields when wait_if_needed returns
wait_if_needed(r, now, woke) ==
    LET r1 == wait_new_second(r, now)
        r2 == IF wait_must_sleep(r, now)
              THEN [r1 EXCEPT !.current_second = int_seconds(woke),
                              !.requests_in_current_second = 0]
              ELSE r1
    IN  [r2 EXCEPT !.requests_in_current_second = @ + 1]

must_sleep(l, now) ==
    IF l.kind = "WBClient" THEN respect_must_sleep(l, now) ELSE wait_must_sleep(l, now)

admit(l, now, woke) ==
    IF l.kind = "WBClient" THEN _respect_rate_limit(l, now, woke)
    ELSE wait_if_needed(l, now, woke)

per_second_limit(l) ==
    IF l.kind = "WBClient" THEN l.rate_limit_per_sec ELSE l.per_second

(***************************************************************************)
(* The limiter specification: up to MaxCalls calls enter one limiter, of   *)
(* either class, during HorizonSeconds seconds; time.sleep returns at the  *)
(* requested time or up to MaxOvershoot ticks later.                       *)
(***************************************************************************)
MaxRateLimit == 2
MaxCalls == 4
HorizonSeconds == 2
MaxOvershoot == 1

NotYet == -1

LimiterStart == TicksPerSecond
LimiterHorizon == LimiterStart + HorizonSeconds * TicksPerSecond

CallRecord(entered, admitted) == [entered |-> entered, admitted |-> admitted]

InitLimiter ==
    /\ NoCall
    /\ NoTracker
    /\ clock = LimiterStart
    /\ lim \in {WBClient_init(n) : n \in 0 .. MaxRateLimit} \cup
               {RateLimiter_init(n, LimiterStart) : n \in 1 .. MaxRateLimit}
    /\ lim_pc = "idle"
    /\ calls = << >>
    /\ NoScheduler
    /\ NoRequest

\* time passes between two calls
LimiterTick ==
    /\ lim_pc = "idle"
    /\ clock < LimiterHorizon
    /\ clock' = clock + 1
    /\ UNCHANGED <<callVars, reqVars, trackerVars, limVars, schedVars>>

\* a call enters the limiter: it returns at once, or goes to sleep
LimiterEnter ==
    /\ lim_pc = "idle"
    /\ Len(calls) < MaxCalls
    /\ IF must_sleep(lim, clock) /\ sleep_time(clock) > 0
       THEN /\ lim_pc' = "sleeping"
            /\ calls' = Append(calls, CallRecord(clock, NotYet))
            /\ UNCHANGED lim
       ELSE /\ lim' = admit(lim, clock, clock)
            /\ calls' = Append(calls, CallRecord(clock, clock))
            /\ UNCHANGED lim_pc
    /\ UNCHANGED <<callVars, reqVars, trackerVars, clock, schedVars>>

\* time.sleep returns and the call leaves the limiter
LimiterWake ==
    /\ lim_pc = "sleeping"
    /\ LET now == calls[Len(calls)].entered
       IN  \E woke \in (now + sleep_time(now)) .. (now + sleep_time(now) + MaxOvershoot) :
              /\ clock' = woke
              /\ lim' = admit(lim, now, woke)
              /\ calls' = [calls EXCEPT ![Len(calls)].admitted = woke]
    /\ lim_pc' = "idle"
    /\ UNCHANGED <<callVars, reqVars, trackerVars, schedVars>>

NextLimiter == LimiterTick \/ LimiterEnter \/ LimiterWake

SpecLimiter == InitLimiter /\ [][NextLimiter]_vars

\* time.sleep always returns
SpecLimiterLive == SpecLimiter /\ WF_vars(LimiterWake)

\* the calls before call k that were admitted in the second call k entered in
AdmittedBefore(k) ==
    {j \in 1 .. (k - 1) : int_seconds(calls[j].admitted) = int_seconds(calls[k].entered)}

C10_PacedNotDropped ==
    /\ \A k \in DOMAIN calls :
          /\ calls[k].admitted = NotYet => (k = Len(calls) /\ lim_pc = "sleeping")
          /\ calls[k].admitted # NotYet =>
                IF Cardinality(AdmittedBefore(k)) >= per_second_limit(lim)
                THEN calls[k].admitted >= (int_seconds(calls[k].entered) + 1) * TicksPerSecond
                ELSE calls[k].admitted = calls[k].entered
    /\ lim_pc = "sleeping" => (calls # << >> /\ calls[Len(calls)].admitted = NotYet)

\* C10: a call that enters when the limit of calls has been admitted in the
\* current second is admitted only when the next second has begun, a call
\* that enters earlier is admitted at once, and every call that enters is
\* eventually admitted: none is dropped.
C10_BlockedUntilNextWindowThenAdmitted ==
    /\ []C10_PacedNotDropped
    /\ \A k \in 1 .. MaxCalls :
          (Len(calls) >= k) ~> (Len(calls) >= k /\ calls[k].admitted # NotYet)

C10_Witness ==
    /\ lim_pc = "idle"
    /\ \E k \in DOMAIN calls :
          /\ Cardinality(AdmittedBefore(k)) = per_second_limit(lim)
          /\ calls[k].admitted = (int_seconds(calls[k].entered) + 1) * TicksPerSecond
          /\ calls[k].entered % TicksPerSecond # 0
          /\ k < Len(calls)

(***************************************************************************)
(* The control clients' requests: WBClient._request (one attempt, paced    *)
(* by _respect_rate_limit) and BidExecutor._request (paced once by         *)
(* wait_if_needed, then up to max_retries attempts with backoff).          *)
(***************************************************************************)
max_retries == 3

\* what session.request gives: <<status>> for a response, RequestException
\* when it raises
RequestException == << >>

\* the statuses a response carries here: 200, a 2xx that is not 200, a 5xx
Statuses == {200, 204, 500}

is_2xx(status) == status \in 200 .. 299

ClientOps(kind) ==
    IF kind = "WBClient" THEN {"start", "pause", "stop"}
    ELSE {"update_bid", "pause_campaign"}

op_ok_any_response(op, status) == TRUE

op_ok_any_2xx(op, status) == is_2xx(status)

\* the ok flag an operation returns for a response
op_ok(op, status) ==
    IF op = "update_bid" THEN status \in {200, 201, 204} ELSE status = 200

\* the attempts _request makes before it raises RuntimeError
attempts_allowed(kind) == IF kind = "WBClient" THEN 1 ELSE max_retries

\* time.sleep(2 ** attempt)
backoff(attempt) == (2 ^ attempt) * TicksPerSecond

\* an attempt on the wire: the call it belongs to, its number, the time it
\* is sent and what comes back
Attempt(call, attempt, at, answer) ==
    [call |-> call, attempt |-> attempt, at |-> at, answer |-> answer]

\* how a call ends for its caller: (ok, detail) returned, or RuntimeError
\* raised; answer is the last attempt's
\* the message an operation returns with its flag for a response: a fixed
\* text with True, the status code and resp.text with False (after "HTTP"
\* in BidExecutor)
op_detail(op, status) ==
    IF op_ok(op, status) THEN <<IF op \in {"update_bid", "pause_campaign"}
                                THEN "done" ELSE "ok">>
    ELSE IF op \in {"update_bid", "pause_campaign"} THEN <<"HTTP", status, "resp.text">>
    ELSE <<status, "resp.text">>

Return(op, ok, raised, answer, detail) ==
    [op |-> op, ok |-> ok, raised |-> raised, answer |-> answer, detail |-> detail]

non_2xx(answer) == answer # RequestException /\ ~is_2xx(answer[1])

\* WBClient's operations let _request's RuntimeError through; BidExecutor's
\* catch it and return (False, message); the detail is the exception's
\* message
surfaced(kind, op) ==
    IF kind = "WBClient" THEN Return(op, FALSE, TRUE, RequestException, <<"HTTP error">>)
    ELSE Return(op, FALSE, FALSE, RequestException, <<"HTTP error">>)

IdleRequest(op) == [pc |-> "idle", op |-> op, attempt |-> 0, entered |-> 0]

(***************************************************************************)
(* The request specification: up to MaxRequests calls of one operation on  *)
(* one client of either class, entered during HorizonSeconds seconds;      *)
(* every attempt is answered at once by a response or a RequestException.  *)
(***************************************************************************)
MaxRequests == 2

RequestStart == TicksPerSecond
RequestHorizon == RequestStart + HorizonSeconds * TicksPerSecond

InitRequest ==
    /\ NoCall
    /\ NoTracker
    /\ clock = RequestStart
    /\ lim \in {WBClient_init(n) : n \in 1 .. MaxRateLimit} \cup
               {RateLimiter_init(n, RequestStart) : n \in 1 .. MaxRateLimit}
    /\ lim_pc = "idle"
    /\ calls = << >>
    /\ NoScheduler
    /\ req \in {IdleRequest(op) : op \in ClientOps(lim.kind)}
    /\ wire = << >>
    /\ returns = << >>

\* time passes between two calls
RequestTick ==
    /\ req.pc = "idle"
    /\ clock < RequestHorizon
    /\ clock' = clock + 1
    /\ UNCHANGED <<callVars, trackerVars, limVars, schedVars, reqVars>>

\* an operation calls _request, which first goes through the limiter
RequestEnter ==
    /\ req.pc = "idle"
    /\ Len(returns) < MaxRequests
    /\ IF must_sleep(lim, clock) /\ sleep_time(clock) > 0
       THEN /\ req' = [req EXCEPT !.pc = "limited", !.entered = clock]
            /\ UNCHANGED lim
       ELSE /\ req' = [req EXCEPT !.pc = "sending", !.entered = clock]
            /\ lim' = admit(lim, clock, clock)
    /\ UNCHANGED <<callVars, trackerVars, clock, lim_pc, calls, schedVars, wire, returns>>

\* the limiter's time.sleep returns
RequestWake ==
    /\ req.pc = "limited"
    /\ LET woke == req.entered + sleep_time(req.entered)
       IN  /\ clock' = woke
           /\ lim' = admit(lim, req.entered, woke)
    /\ req' = [req EXCEPT !.pc = "sending"]
    /\ UNCHANGED <<callVars, trackerVars, lim_pc, calls, schedVars, wire, returns>>

\* session.request: the attempt is sent and answered
RequestAttempt ==
    /\ req.pc = "sending"
    /\ \E answer \in {<<status>> : status \in Statuses} \cup {RequestException} :
          /\ wire' = Append(wire, Attempt(Len(returns) + 1, req.attempt, clock, answer))
          /\ IF answer # RequestException
             THEN /\ returns' = Append(returns,
                                       Return(req.op, op_ok(req.op, answer[1]), FALSE, answer,
                                              op_detail(req.op, answer[1])))
                  /\ req' = IdleRequest(req.op)
             ELSE IF req.attempt + 1 >= attempts_allowed(lim.kind)
             THEN /\ returns' = Append(returns, surfaced(lim.kind, req.op))
                  /\ req' = IdleRequest(req.op)
             ELSE /\ req' = [req EXCEPT !.pc = "backoff"]
                  /\ UNCHANGED returns
    /\ UNCHANGED <<callVars, trackerVars, clock, limVars, schedVars>>

\* time.sleep(2 ** attempt) returns and the loop goes round
RequestBackoff ==
    /\ req.pc = "backoff"
    /\ clock' = clock + backoff(req.attempt)
    /\ req' = [req EXCEPT !.pc = "sending", !.attempt = @ + 1]
    /\ UNCHANGED <<callVars, trackerVars, limVars, schedVars, wire, returns>>

NextRequest ==
    RequestTick \/ RequestEnter \/ RequestWake \/ RequestAttempt \/ RequestBackoff

SpecRequest == InitRequest /\ [][NextRequest]_vars

\* the attempts of call k, in the order sent
AttemptsOf(k) == {i \in DOMAIN wire : wire[i].call = k}

\* the attempts sent in second s
SentInSecond(s) == {i \in DOMAIN wire : int_seconds(wire[i].at) = s}

\* C11: in no second of the clock does a client send more request attempts,
\* retries included, than its per-second limit.
C11_AttemptsWithinLimit ==
    \A i \in DOMAIN wire :
        Cardinality(SentInSecond(int_seconds(wire[i].at))) <= per_second_limit(lim)

\* C12: a call whose failure is a transport failure surfaces it only after
\* max_retries attempts, sent 1 second, then 2 seconds, ... apart.
C12_TransportFailureRetried ==
    \A k \in DOMAIN returns :
        returns[k].answer = RequestException =>
            /\ Cardinality(AttemptsOf(k)) = max_retries
            /\ \A i, j \in AttemptsOf(k) :
                  wire[j].attempt = wire[i].attempt + 1 =>
                      wire[j].at - wire[i].at = backoff(wire[i].attempt)

\* C13 as stated: a call answered by a non-2xx response has made exactly one
\* attempt and returns ok = false.
C13_NonSuccessOneAttempt ==
    \A k \in DOMAIN returns :
        non_2xx(returns[k].answer) =>
            /\ Cardinality(AttemptsOf(k)) = 1
            /\ ~returns[k].ok /\ ~returns[k].raised

\* C13: a call answered by a non-2xx response returns ok = false without
\* another attempt: the answered attempt is the call's last, every attempt
\* before it failed in transport, and a WBClient call has made exactly one.
C13_NonSuccessNotRetried ==
    \A k \in DOMAIN returns :
        non_2xx(returns[k].answer) =>
            /\ ~returns[k].ok /\ ~returns[k].raised
            /\ \E i \in AttemptsOf(k) :
                  /\ wire[i].answer = returns[k].answer
                  /\ \A j \in AttemptsOf(k) \ {i} :
                        j < i /\ wire[j].answer = RequestException
            /\ Cardinality(AttemptsOf(k)) <= attempts_allowed(lim.kind)
            /\ lim.kind = "WBClient" => Cardinality(AttemptsOf(k)) = 1

C13_Witness ==
    /\ \E k \in DOMAIN returns :
          /\ returns[k].answer = <<500>>
          /\ k < Len(returns)
          /\ Cardinality(AttemptsOf(k)) = 1
    /\ \E k \in DOMAIN returns :
          /\ returns[k].answer = <<500>>
          /\ Cardinality(AttemptsOf(k)) = 2

\* C37: a start, pause or stop that gets a response returns ok = true when
\* the status is 200 and only then; for any other status, 204 included, it
\* returns ok = false with the status and the response text as detail.
C37_OkExactlyOn200 ==
    \A k \in DOMAIN returns :
        /\ returns[k].op \in {"start", "pause", "stop"}
        /\ returns[k].answer # RequestException
        => /\ returns[k].ok <=> returns[k].answer[1] = 200
           /\ ~returns[k].raised
           /\ ~returns[k].ok =>
                 returns[k].detail = <<returns[k].answer[1], "resp.text">>

C37_Witness ==
    \E i, j \in DOMAIN returns :
        /\ returns[i].op \in {"start", "pause", "stop"}
        /\ returns[i].answer = <<200>> /\ returns[i].ok
        /\ returns[j].answer = <<204>> /\ ~returns[j].ok
        /\ returns[j].detail = <<204, "resp.text">>

\* C29: no control operation raises: every failure, a transport failure
\* included, comes back as a returned (ok = false, detail).
C29_NoOperationRaises ==
    \A k \in DOMAIN returns : ~returns[k].raised

(***************************************************************************)
(* The scheduler: main and one_cycle.                                      *)
(***************************************************************************)
RECURSIVE sorted(_)
sorted(S) ==
    IF S = {} THEN << >>
    ELSE LET least == CHOOSE x \in S : \A y \in S : x <= y
         IN  <<least>> \o sorted(S \ {least})

build_campaigns_of_enabled(c) ==
    LET ids == UNION {Range(c.rules[i].targets.ids) :
                         i \in {n \in DOMAIN c.rules :
                                   /\ c.rules[n].enabled
                                   /\ c.rules[n].targets.type = "ids"
                                   /\ c.rules[n].targets.ids # None
                                   /\ c.rules[n].targets.ids # << >>}}
        order == sorted(ids)
    IN  [i \in DOMAIN order |-> CampaignMeta(order[i])]

build_campaigns_from_config(c) ==
    LET ids == UNION {Range(c.rules[i].targets.ids) :
                         i \in {n \in DOMAIN c.rules :
                                   /\ c.rules[n].targets.type = "ids"
                                   /\ c.rules[n].targets.ids # None
                                   /\ c.rules[n].targets.ids # << >>}}
        order == sorted(ids)
    IN  [i \in DOMAIN order |-> CampaignMeta(order[i])]

after_cycle_sleep(o) == "sleeping"

\* what main does after a cycle: return (--once), or sleep
after_cycle(o) == IF o.once THEN "done" ELSE "sleeping"

cycle_sleep_interval(o) == o.interval * TicksPerSecond

\* time.sleep(max(1, args.interval))
cycle_sleep(o) == (IF o.interval > 1 THEN o.interval ELSE 1) * TicksPerSecond

is_dry_run_never(o) == FALSE

\* if args.dry_run: continue
is_dry_run(o) == o.dry_run

after_dispatch_raise(idx, last, outcome) ==
    IF outcome = "error" THEN last + 1 ELSE idx + 1

\* the for loop's next index after the pass for decision idx: every way a
\* pass ends (continue, the except clause, the end of the body) goes on
after_dispatch(idx, last, outcome) == idx + 1

\* a record handed to logging: its level, its message and the message's
\* arguments (None for one the message does not have)
LogRecord(level, message, rule_name, advert_id, action) ==
    [level |-> level, message |-> message, rule_name |-> rule_name,
     advert_id |-> advert_id, action |-> action]

\* logging.debug of an empty cycle, logging.info of the loop's start and end
no_changes_record == LogRecord("DEBUG", "no changes", None, None, None)
timer_record == LogRecord("INFO", "timer started", None, None, None)
interrupt_record == LogRecord("INFO", "interrupted, exiting", None, None, None)

\* logging.debug("幂等跳过：advert_id=%s desired=%s", ...)
skip_record(d) == LogRecord("DEBUG", "idempotent skip", None, d.advert_id, d.desired)

\* logging.info("规则命中 | %s | advert_id=%s | action=%s", ...)
hit_record(d) == LogRecord("INFO", "rule hit", d.rule_name, d.advert_id, d.desired)

\* logging.error("未知动作：%s", d.desired)
unknown_action_record(d) == LogRecord("ERROR", "unknown action", None, None, d.desired)

\* the record that follows a control call
result_record(d, outcome) ==
    IF outcome = "ok" THEN LogRecord("INFO", "API ok", None, d.advert_id, d.desired)
    ELSE IF outcome = "rejected"
    THEN LogRecord("ERROR", "API failed", None, d.advert_id, d.desired)
    ELSE LogRecord("ERROR", "API exception", None, d.advert_id, d.desired)

control_operation_always_start(desired) ==
    IF desired \in {"start", "pause", "stop"} THEN "start" ELSE None

\* the if/elif chain of one_cycle's try block: the client method called for
\* a desired action, None for the else branch, which calls nothing
control_operation(desired) ==
    IF desired = "start" THEN "start"
    ELSE IF desired = "pause" THEN "pause"
    ELSE IF desired = "stop" THEN "stop"
    ELSE None

ApiCall(advert_id, action, decided_at, sent_at, outcome, redundant) ==
    [advert_id |-> advert_id, action |-> action, decided_at |-> decided_at,
     sent_at |-> sent_at, outcome |-> outcome, redundant |-> redundant]

\* the ways a control call ends: status 200, another status, RequestException
Outcomes == {"ok", "rejected", "error"}

(***************************************************************************)
(* The scheduler specification: rule lists over campaigns 1 and 2, polled  *)
(* from midnight of day 0 every second or every minute, for up to          *)
(* MaxCycles cycles in which up to MaxFailures control calls fail.         *)
(* time.sleep returns on time here; the limiter specification has it       *)
(* return late.                                                            *)
(***************************************************************************)
MaxCycles == 3
MaxFailures == 1

DayStart ==
    [name |-> <<1>>, targets |-> IdsTarget(<<1, 2>>), weekdays |-> Weekdays,
     periods |-> <<HourZero>>, exclude_dates |-> << >>, priority |-> 1,
     enabled |-> TRUE]
NightPause ==
    [name |-> <<2>>, targets |-> IdsTarget(<<1>>), weekdays |-> Weekdays,
     periods |-> <<AllButFirstMinute>>, exclude_dates |-> << >>, priority |-> 2,
     enabled |-> TRUE]
SecondMinuteStop ==
    [name |-> <<3>>, targets |-> IdsTarget(<<2>>), weekdays |-> Weekdays,
     periods |-> <<[start |-> <<0, 1>>, end |-> <<1, 0>>, action |-> "stop"]>>,
     exclude_dates |-> << >>, priority |-> 2, enabled |-> TRUE]

SchedRuleLists ==
    {<< >>, <<DayStart>>, <<NightPause>>, <<DayStart, NightPause>>,
     <<SecondMinuteStop, DayStart>>, <<DayStart, NightPause, SecondMinuteStop>>}

\* the token is not used by a dry run: dry runs are modelled with one
SchedOptions ==
    {o \in [dry_run : BOOLEAN, once : BOOLEAN, interval : {0, SecondsPerMinute},
            has_token : BOOLEAN] :
        o.dry_run => o.has_token}

Init ==
    /\ NoCall
    /\ clock = 0
    /\ last_applied = << >>
    /\ qlog = << >>
    /\ cfg \in [rules : SchedRuleLists, rate_limit_per_second : {1, MaxRateLimit}]
    /\ main_campaigns = build_campaigns_from_config(cfg)
    /\ opts \in SchedOptions
    /\ lim = WBClient_init(cfg.rate_limit_per_second)
    /\ lim_pc = "idle"
    /\ calls = << >>
    \* sys.exit(2) when there is no token and the run is not a dry run
    /\ pc = IF ~opts.has_token /\ ~opts.dry_run THEN "exited" ELSE "idle"
    /\ cycle = [n |-> 0, now |-> 0, decisions |-> << >>, idx |-> 1]
    /\ remote = [c \in {1, 2} |-> "unknown"]
    /\ api_log = << >>
    /\ log = << >>
    /\ interrupted = FALSE
    /\ NoRequest

Failures == Cardinality({k \in DOMAIN api_log : api_log[k].outcome # "ok"})

last_applied_reverted(before, written, outcome) ==
    IF outcome = "ok" THEN written ELSE before

\* self.last_applied after the control call: neither the except clause nor
\* the ok / failed logging assigns to it
last_applied_after_call(before, written, outcome) == written

rules_after_decide_reversed(rules) ==
    [i \in DOMAIN rules |-> rules[Len(rules) + 1 - i]]

\* self.cfg.rules after decide: the rule loop only reads it, and the sort
\* in place is of the local candidates list
rules_after_decide(rules) == rules

\* one_cycle up to its for loop: sample the time and decide
CycleStart ==
    /\ pc = "idle"
    /\ cycle.n < MaxCycles
    /\ LET decisions == decide(DateTimeOf(clock), main_campaigns, cfg.rules)
           started == IF cycle.n = 0 /\ ~opts.once THEN <<timer_record>> ELSE << >>
       IN  IF decide_raises(DateTimeOf(clock), main_campaigns, cfg.rules)
           \* the ValueError leaves one_cycle and main: nothing catches it
           THEN /\ cycle' = [n |-> cycle.n + 1, now |-> clock, decisions |-> << >>,
                             idx |-> 1]
                /\ pc' = "crashed"
                /\ log' = log \o started
           ELSE /\ cycle' = [n |-> cycle.n + 1, now |-> clock, decisions |-> decisions,
                             idx |-> 1]
                /\ pc' = IF decisions = << >> THEN after_cycle(opts) ELSE "dispatching"
                /\ log' = log \o started \o
                          (IF decisions = << >> THEN <<no_changes_record>> ELSE << >>)
    /\ cfg' = [cfg EXCEPT !.rules = rules_after_decide(cfg.rules)]
    /\ UNCHANGED <<callVars, reqVars, clock, trackerVars, limVars, main_campaigns,
                   opts, remote, api_log, interrupted>>

\* the for loop goes on to the next decision, or one_cycle returns
Advance(outcome) ==
    LET nxt == after_dispatch(cycle.idx, Len(cycle.decisions), outcome)
    IN  /\ cycle' = [cycle EXCEPT !.idx = nxt]
        /\ pc' = IF nxt > Len(cycle.decisions) THEN after_cycle(opts) ELSE "dispatching"

\* one pass of one_cycle's for loop: the tracker query and, when it does not
\* skip and the run is live, the control call with its pacing
Dispatch ==
    /\ pc = "dispatching"
    /\ LET d == cycle.decisions[cycle.idx]
           now_dt == DateTimeOf(cycle.now)
           skip == should_skip_idempotent(last_applied, d.advert_id, d.desired, now_dt)
           written == last_applied_after(last_applied, d.advert_id, d.desired, now_dt)
           woke == IF respect_must_sleep(lim, clock) /\ sleep_time(clock) > 0
                   THEN clock + sleep_time(clock)
                   ELSE clock
       IN  /\ qlog' = Append(qlog, QueryRecord(d.advert_id, d.desired, cycle.now, skip))
           /\ IF skip
              THEN /\ last_applied' = written
                   /\ log' = Append(log, skip_record(d))
                   /\ Advance("skipped")
                   /\ UNCHANGED <<clock, lim, remote, api_log>>
              ELSE IF is_dry_run(opts)
              THEN /\ last_applied' = written
                   /\ log' = Append(log, hit_record(d))
                   /\ Advance("dry run")
                   /\ UNCHANGED <<clock, lim, remote, api_log>>
              ELSE IF control_operation(d.desired) = None
              THEN /\ last_applied' = written
                   /\ log' = log \o <<hit_record(d), unknown_action_record(d)>>
                   /\ Advance("unknown action")
                   /\ UNCHANGED <<clock, lim, remote, api_log>>
              ELSE \E outcome \in Outcomes :
                      /\ outcome # "ok" => Failures < MaxFailures
                      /\ last_applied' = last_applied_after_call(last_applied, written,
                                                                 outcome)
                      /\ lim' = _respect_rate_limit(lim, clock, woke)
                      /\ api_log' = Append(api_log,
                             ApiCall(d.advert_id, control_operation(d.desired), cycle.now,
                                     woke, outcome,
                                     remote[d.advert_id] = control_operation(d.desired)))
                      /\ remote' = IF outcome = "ok"
                                   THEN [remote EXCEPT ![d.advert_id] =
                                                           control_operation(d.desired)]
                                   ELSE remote
                      /\ clock' = woke
                      /\ log' = log \o <<hit_record(d), result_record(d, outcome)>>
                      /\ Advance(outcome)
    /\ UNCHANGED <<callVars, reqVars, lim_pc, calls, cfg, main_campaigns, opts, interrupted>>

\* time.sleep(max(1, args.interval)) between two cycles
Sleep ==
    /\ pc = "sleeping"
    /\ clock' = clock + cycle_sleep(opts)
    /\ pc' = "idle"
    /\ UNCHANGED <<callVars, reqVars, trackerVars, limVars, cfg, main_campaigns, opts,
                   cycle, remote, api_log, log, interrupted>>

\* KeyboardInterrupt is raised in the while loop: between two statements of
\* one_cycle or in the sleep, or inside the control call of the decision at
\* hand, which except Exception does not catch; main logs and returns
Interrupt ==
    /\ ~opts.once
    /\ pc \in {"dispatching", "sleeping"}
    /\ \E in_flight \in BOOLEAN :
          IF in_flight
          THEN /\ pc = "dispatching"
               /\ LET d == cycle.decisions[cycle.idx]
                      now_dt == DateTimeOf(cycle.now)
                      woke == IF respect_must_sleep(lim, clock) /\ sleep_time(clock) > 0
                              THEN clock + sleep_time(clock)
                              ELSE clock
                  IN  /\ ~should_skip_idempotent(last_applied, d.advert_id, d.desired,
                                                 now_dt)
                      /\ ~is_dry_run(opts)
                      /\ control_operation(d.desired) # None
                      /\ qlog' = Append(qlog, QueryRecord(d.advert_id, d.desired,
                                                          cycle.now, FALSE))
                      /\ last_applied' = last_applied_after(last_applied, d.advert_id,
                                                            d.desired, now_dt)
                      /\ lim' = _respect_rate_limit(lim, clock, woke)
                      /\ api_log' = Append(api_log,
                             ApiCall(d.advert_id, control_operation(d.desired), cycle.now,
                                     woke, "interrupted",
                                     remote[d.advert_id] = control_operation(d.desired)))
                      /\ clock' = woke
                      /\ log' = log \o <<hit_record(d), interrupt_record>>
          ELSE /\ log' = Append(log, interrupt_record)
               /\ UNCHANGED <<clock, trackerVars, lim, api_log>>
    /\ pc' = "exited"
    /\ interrupted' = TRUE
    /\ UNCHANGED <<callVars, reqVars, lim_pc, calls, cfg, main_campaigns, opts, cycle,
                   remote>>

Next == CycleStart \/ Dispatch \/ Sleep \/ Interrupt

Spec == Init /\ [][Next]_vars

\* every call returns or fails and every sleep ends: main keeps running
SpecLive == Spec /\ WF_vars(Next)

C3_NoCallWhenStateIsDesired ==
    \A k \in DOMAIN api_log : ~api_log[k].redundant

\* the tracker queries and the control calls of the cycle at hand
CycleQueries == {q \in DOMAIN qlog : qlog[q].at = cycle.now}
CycleCalls == {k \in DOMAIN api_log : api_log[k].decided_at = cycle.now}
InCycle(q) == q.at = cycle.now

CycleOver == cycle.n > 0 /\ pc \in {"idle", "sleeping", "done"}

C14_CycleProcessedWhole ==
    CycleOver =>
        \A i \in DOMAIN cycle.decisions :
            \E q \in CycleQueries :
                /\ qlog[q].advert_id = cycle.decisions[i].advert_id
                /\ qlog[q].desired = cycle.decisions[i].desired
                /\ (~qlog[q].skip /\ ~opts.dry_run) =>
                      \E k \in CycleCalls :
                          /\ api_log[k].advert_id = cycle.decisions[i].advert_id
                          /\ api_log[k].action = cycle.decisions[i].desired

C14_NothingUndone ==
    /\ \A k \in DOMAIN api_log : k \in DOMAIN api_log' /\ api_log'[k] = api_log[k]
    /\ \A c \in DOMAIN remote :
          remote'[c] # remote[c] =>
              /\ Len(api_log') = Len(api_log) + 1
              /\ api_log'[Len(api_log')].outcome = "ok"
              /\ api_log'[Len(api_log')].advert_id = c

\* C14: when a cycle is over every decision of it has been through the
\* tracker and, unless skipped or a dry run, through a control call, whether
\* or not an earlier call of the cycle failed; no step removes a call made
\* or changes a campaign's state other than by a successful call to it.
C14_FailureDoesNotAbortCycle == []C14_CycleProcessedWhole /\ [][C14_NothingUndone]_vars

C14_Witness ==
    /\ CycleOver
    /\ ~opts.dry_run
    /\ \E k, j \in CycleCalls :
          /\ k < j
          /\ api_log[k].outcome = "error"
          /\ api_log[j].outcome = "ok"
          /\ \E i \in DOMAIN api_log :
                /\ api_log[i].decided_at < cycle.now
                /\ api_log[i].outcome = "ok"
                /\ api_log[i].advert_id = api_log[k].advert_id
                /\ remote[api_log[i].advert_id] = api_log[i].action

\* C15: a dry run makes no control call: nothing is sent, the limiter is
\* never entered, and no failure is logged.
C15_DryRunNoControlCall ==
    opts.dry_run =>
        /\ api_log = << >>
        /\ lim = WBClient_init(cfg.rate_limit_per_second)
        /\ \A k \in DOMAIN log : log[k].level # "ERROR"

C15_Witness ==
    /\ opts.dry_run
    /\ cycle.n = MaxCycles
    /\ pc # "dispatching"
    /\ Cardinality({q \in DOMAIN qlog : ~qlog[q].skip}) >= 3

\* C16: in a dry run no record is logged for a decision that equals the
\* record a real dispatch of that decision logs.
C16_DryRunEntryMarkedSimulated ==
    opts.dry_run =>
        \A k \in DOMAIN log, i \in DOMAIN cycle.decisions :
            log[k] # hit_record(cycle.decisions[i])

C17_Step ==
    /\ cycle'.n # cycle.n =>
          /\ pc = "idle"
          /\ cycle.n > 0 =>
                /\ cycle.idx > Len(cycle.decisions)
                /\ clock >= cycle.now + TicksPerSecond
                /\ \A k \in DOMAIN api_log : clock >= api_log[k].sent_at + TicksPerSecond
    /\ (pc' = "sleeping" /\ pc # "sleeping") => cycle'.idx > Len(cycle'.decisions)
    /\ pc = "sleeping" => UNCHANGED <<cycle, api_log, qlog>>

\* C17: a cycle starts only from the idle loop, at least a second after the
\* evaluation and after every dispatch (limiter waits included) of the
\* cycle before it; the sleep starts only when every decision of the cycle
\* has been processed, and nothing is evaluated or dispatched during it.
C17_CyclesDoNotOverlap == [][C17_Step]_vars

C17_Witness ==
    /\ cycle.n >= 2
    /\ pc = "dispatching"
    /\ cycle.idx = 2
    /\ \E k \in DOMAIN api_log :
          /\ api_log[k].decided_at < cycle.now
          /\ api_log[k].sent_at > api_log[k].decided_at

C18_OneCycleOnly ==
    opts.once =>
        /\ cycle.n <= 1
        /\ pc \in {"idle", "dispatching", "done", "exited"}
        /\ pc = "done" => (cycle.n = 1 /\ cycle.idx > Len(cycle.decisions))

\* C18: with --once, once the setup has passed, main runs one cycle, no
\* more, through all of its decisions and then returns for good.
C18_SingleShotTerminates ==
    /\ []C18_OneCycleOnly
    /\ (opts.once /\ pc = "idle") ~> (pc = "done")
    /\ [][pc = "done" => UNCHANGED vars]_vars

C18_Witness ==
    /\ opts.once
    /\ pc = "done"
    /\ Len(cycle.decisions) = 2
    /\ Len(api_log) = 2
    /\ api_log[1].outcome = "error"

\* C19: when KeyboardInterrupt has ended the loop, the cycle at hand has
\* processed all of its decisions and no control call was cut short.
C19_InterruptOnlyBetweenCycles ==
    interrupted =>
        /\ cycle.idx > Len(cycle.decisions)
        /\ \A k \in DOMAIN api_log : api_log[k].outcome # "interrupted"

PositionIn(seq, advert_id) == CHOOSE i \in DOMAIN seq : seq[i].advert_id = advert_id

\* C20: the decisions of a cycle are in the order of main's campaign list,
\* the tracker is asked about them in that order, and the control calls of
\* the cycle are made in that order.
C20_DispatchInDecisionOrder ==
    /\ \A i, j \in DOMAIN cycle.decisions :
          i < j => PositionIn(main_campaigns, cycle.decisions[i].advert_id)
                   < PositionIn(main_campaigns, cycle.decisions[j].advert_id)
    /\ LET qs == SelectSeq(qlog, InCycle)
       IN  /\ Len(qs) <= Len(cycle.decisions)
           /\ \A k \in DOMAIN qs :
                 /\ qs[k].advert_id = cycle.decisions[k].advert_id
                 /\ qs[k].desired = cycle.decisions[k].desired
    /\ \A i, j \in CycleCalls :
          i < j => PositionIn(cycle.decisions, api_log[i].advert_id)
                   < PositionIn(cycle.decisions, api_log[j].advert_id)

C20_Witness ==
    /\ cycle.n >= 2
    /\ Len(cycle.decisions) = 2
    /\ cycle.decisions[1].desired # cycle.decisions[2].desired
    /\ Cardinality(CycleCalls) = 2
    /\ pc # "dispatching"

\* C26: in a live run every decision the tracker lets through has exactly
\* one control call, on the decision's resource, and the call is the one
\* the desired action names (start, pause or stop); nothing else is called.
C26_OneOperationPerDecision ==
    ~opts.dry_run =>
        /\ \A k \in DOMAIN qlog :
              ~qlog[k].skip /\ qlog[k].desired \in {"start", "pause", "stop"} =>
                  LET ops == {j \in DOMAIN api_log :
                                 /\ api_log[j].advert_id = qlog[k].advert_id
                                 /\ api_log[j].decided_at = qlog[k].at}
                  IN  /\ Cardinality(ops) = 1
                      /\ \A j \in ops : api_log[j].action = qlog[k].desired
        /\ Len(api_log) = Cardinality({k \in DOMAIN qlog : ~qlog[k].skip})

C26_Witness ==
    /\ ~opts.dry_run
    /\ \A a \in {"start", "pause", "stop"} :
          \E j \in DOMAIN api_log : api_log[j].action = a
    /\ \E k \in DOMAIN qlog : qlog[k].skip
    /\ \E j \in DOMAIN api_log : api_log[j].outcome = "error"

(***************************************************************************)
(* Start-up from a configuration file: load_config on the parsed document,  *)
(* then main's set-up and its cycles.  A document's rule is the mapping     *)
(* with the keys it has; the documents are valid ones, one whose rule lacks *)
(* a key, ones with a time that does not parse and one with an action that  *)
(* is none of start, pause and stop.                                        *)
(***************************************************************************)
RequiredKeys == {"name", "targets", "weekdays", "periods"}
AllKeys == RequiredKeys \cup {"exclude_dates", "priority", "enabled"}

\* r.get(key, default)
get(obj, key, default) == IF key \in obj.keys THEN obj[key] ELSE default

\* load_config raises KeyError: r["name"], r["targets"], r["weekdays"] or
\* r["periods"] of a rule that does not have the key
load_config_raises(raw) ==
    \E i \in DOMAIN raw.rules : ~(RequiredKeys \subseteq raw.rules[i].keys)

\* load_config._period: the three values as they are, nothing is parsed
_period(obj) == [start |-> obj.start, end |-> obj.end, action |-> obj.action]

load_config(raw) ==
    [rules |-> [i \in DOMAIN raw.rules |->
                   LET r == raw.rules[i]
                   IN  [name |-> r.name, targets |-> r.targets, weekdays |-> r.weekdays,
                        periods |-> [j \in DOMAIN r.periods |-> _period(r.periods[j])],
                        exclude_dates |-> get(r, "exclude_dates", << >>),
                        priority |-> get(r, "priority", 0),
                        enabled |-> get(r, "enabled", TRUE)]],
     rate_limit_per_second |-> raw.rate_limit_per_second]

\* a rule of the document with the given keys
RawRule(keys, r) ==
    [keys |-> keys, name |-> r.name, targets |-> r.targets, weekdays |-> r.weekdays,
     periods |-> r.periods, exclude_dates |-> r.exclude_dates, priority |-> r.priority,
     enabled |-> r.enabled]

\* "24:00" on the scaled-down day: an hour datetime.time refuses
HourPastDay ==
    [DayStart EXCEPT !.name = <<4>>,
                     !.periods = <<[start |-> <<HoursPerDay, 0>>, end |-> <<1, 0>>,
                                    action |-> "start"]>>]
\* a time without ":" in a rule of campaign 1 for the first day's weekday
NoColon ==
    [NightPause EXCEPT !.name = <<5>>,
                       !.weekdays = {weekday_int(DateTimeOf(0))},
                       !.periods = <<[start |-> <<0>>, end |-> <<1, 0>>,
                                      action |-> "pause"]>>]
\* the same for the other weekdays: not read on the first day
NoColonLater == [NoColon EXCEPT !.weekdays = Weekdays \ {weekday_int(DateTimeOf(0))}]
\* an action that is none of start, pause, stop, for campaign 2
ResumeRule ==
    [SecondMinuteStop EXCEPT !.name = <<6>>,
                             !.periods = <<[start |-> <<0, 0>>, end |-> <<1, 0>>,
                                            action |-> "resume"]>>]

\* a disabled rule whose ids are out of order and repeat
DisabledUnsorted ==
    [DayStart EXCEPT !.name = <<7>>, !.targets = IdsTarget(<<2, 1, 2>>),
                     !.enabled = FALSE]
\* a tags rule that also spells ids
TaggedWithIds ==
    [DayStart EXCEPT !.name = <<8>>,
                     !.targets = [type |-> "tags", ids |-> <<3>>, name_prefix |-> None,
                                  tags |-> None]]

RawConfigs ==
    [rules : {<<RawRule(AllKeys, DayStart)>>,
              <<RawRule(AllKeys, DisabledUnsorted), RawRule(AllKeys, TaggedWithIds),
                RawRule(AllKeys, NightPause)>>,
              <<RawRule(RequiredKeys, DayStart)>>,
              <<RawRule(AllKeys, DayStart), RawRule(AllKeys \ {"periods"}, NightPause)>>,
              <<RawRule(AllKeys, HourPastDay)>>,
              <<RawRule(AllKeys, DayStart), RawRule(AllKeys, NoColon)>>,
              <<RawRule(AllKeys, DayStart), RawRule(AllKeys, NoColonLater)>>,
              <<RawRule(AllKeys, DayStart), RawRule(AllKeys, ResumeRule)>>},
     rate_limit_per_second : {1}]

InitLoad ==
    /\ args \in RawConfigs
    /\ ret = NoResult
    /\ clock = 0
    /\ NoTracker
    /\ NoLimit
    /\ cfg = << >>
    /\ main_campaigns = << >>
    /\ opts \in SchedOptions
    /\ pc = "loading"
    /\ cycle = [n |-> 0, now |-> 0, decisions |-> << >>, idx |-> 1]
    /\ remote = [c \in {1, 2} |-> "unknown"]
    /\ api_log = << >>
    /\ log = << >>
    /\ interrupted = FALSE
    /\ NoRequest

\* main up to one_cycle: load_config, build_campaigns_from_config, the token
\* test and the client
LoadConfig ==
    /\ pc = "loading"
    /\ IF load_config_raises(args)
       THEN /\ pc' = "crashed"
            /\ UNCHANGED <<cfg, main_campaigns, lim>>
       ELSE /\ cfg' = load_config(args)
            /\ main_campaigns' = build_campaigns_from_config(load_config(args))
            /\ IF ~opts.has_token /\ ~opts.dry_run
               THEN pc' = "exited" /\ UNCHANGED lim
               ELSE /\ pc' = "idle"
                    /\ lim' = WBClient_init(load_config(args).rate_limit_per_second)
    /\ UNCHANGED <<callVars, reqVars, clock, trackerVars, lim_pc, calls, opts, cycle,
                   remote, api_log, log, interrupted>>

NextLoad == LoadConfig \/ CycleStart \/ Dispatch \/ Sleep

SpecLoad == InitLoad /\ [][NextLoad]_vars

\* a time of some period of the document that parse_time_hhmm refuses
HasBadTime(raw) ==
    \E i \in DOMAIN raw.rules :
        /\ "periods" \in raw.rules[i].keys
        /\ \E j \in DOMAIN raw.rules[i].periods :
              \/ parse_time_hhmm_raises(raw.rules[i].periods[j].start)
              \/ parse_time_hhmm_raises(raw.rules[i].periods[j].end)

HasUnknownAction(raw) ==
    \E i \in DOMAIN raw.rules :
        /\ "periods" \in raw.rules[i].keys
        /\ \E j \in DOMAIN raw.rules[i].periods :
              raw.rules[i].periods[j].action \notin {"start", "pause", "stop"}

\* C21: a document with a rule that lacks a key, a time that does not parse
\* or an action that is none of start, pause and stop is refused when it is
\* loaded: no cycle starts with it.
C21_BadConfigNeverRuns ==
    load_config_raises(args) \/ HasBadTime(args) \/ HasUnknownAction(args) =>
        cycle.n = 0

\* the part of C21 that does hold: a rule that lacks a required key stops
\* main in load_config
C21_MissingKeyNeverRuns ==
    load_config_raises(args) => cycle.n = 0 /\ pc \in {"loading", "crashed"}

\* a cycle dispatched start calls although the document has a bad time
C21_RanWithBadTime ==
    /\ HasBadTime(args)
    /\ cycle.n >= 1
    /\ \E j \in DOMAIN api_log : api_log[j].outcome = "ok"

\* a later cycle followed one that met the unknown action
C21_RanWithUnknownAction ==
    /\ HasUnknownAction(args)
    /\ cycle.n >= 2
    /\ \E k \in DOMAIN log : log[k].message = "unknown action"

C31_Step ==
    /\ pc # "loading" => cfg' = cfg
    /\ cycle'.n # cycle.n => last_applied' = last_applied /\ qlog' = qlog
    /\ last_applied' # last_applied =>
          /\ Len(qlog') = Len(qlog) + 1
          /\ ~qlog'[Len(qlog')].skip

\* C31: once the configuration is loaded no step changes the rule list,
\* content or order; the step that runs decide changes neither it nor
\* last_applied; last_applied changes only in a step that makes a tracker
\* query, one answered dispatch.
C31_DecideChangesNothing == [][C31_Step]_vars

C31_Witness ==
    /\ cycle.n >= 2
    /\ Len(cfg.rules) = 2
    /\ cfg.rules[1].priority < cfg.rules[2].priority
    /\ cfg = load_config(args)
    /\ \E k \in DOMAIN qlog : qlog[k].skip
    /\ DOMAIN last_applied = {1, 2}

\* the ids that the ids targets of the loaded rules list
ListedIds ==
    {id \in 1 .. 3 :
        \E n \in DOMAIN cfg.rules :
            /\ cfg.rules[n].targets.type = "ids"
            /\ id \in Range(cfg.rules[n].targets.ids)}

C32_CampaignsAreListedIds ==
    cfg # << >> =>
        /\ {main_campaigns[i].advert_id : i \in DOMAIN main_campaigns} = ListedIds
        /\ \A i, j \in DOMAIN main_campaigns :
              i < j => main_campaigns[i].advert_id < main_campaigns[j].advert_id

\* C32: the resource list is the ids of the ids targets of the loaded rules,
\* disabled ones included, each once and in ascending order, whatever the
\* other target types spell; it is set at load and no later step changes it.
C32_CampaignsFromIdsTargets ==
    /\ []C32_CampaignsAreListedIds
    /\ [][pc # "loading" => main_campaigns' = main_campaigns]_vars

C32_Witness ==
    /\ cycle.n >= 2
    /\ Len(cfg.rules) = 3
    /\ ~cfg.rules[1].enabled /\ cfg.rules[1].targets.ids = <<2, 1, 2>>
    /\ cfg.rules[2].targets.type = "tags" /\ cfg.rules[2].targets.ids = <<3>>
    /\ main_campaigns = <<CampaignMeta(1), CampaignMeta(2)>>

\* the control calls that came back rejected or raised
FailedCalls == {j \in DOMAIN api_log : api_log[j].outcome \in {"rejected", "error"}}

\* C33: after a control call for action A on a resource fails, every later
\* cycle evaluated in the same minute that decides A for the resource is
\* answered skip, and the next call of A on it is decided in a later minute.
C33_FailureNotRetriedInMinute ==
    \A j \in FailedCalls :
        /\ \A k \in DOMAIN qlog :
              /\ qlog[k].advert_id = api_log[j].advert_id
              /\ qlog[k].desired = api_log[j].action
              /\ qlog[k].at > api_log[j].decided_at
              /\ MinuteOf(qlog[k].at) = MinuteOf(api_log[j].decided_at)
              => qlog[k].skip
        /\ \A i \in DOMAIN api_log :
              /\ i > j
              /\ api_log[i].advert_id = api_log[j].advert_id
              /\ api_log[i].action = api_log[j].action
              => MinuteOf(api_log[i].decided_at) > MinuteOf(api_log[j].decided_at)

C33_Witness ==
    \E j \in FailedCalls :
        /\ \E k \in DOMAIN qlog :
              /\ qlog[k].advert_id = api_log[j].advert_id
              /\ qlog[k].desired = api_log[j].action
              /\ qlog[k].at > api_log[j].decided_at
              /\ MinuteOf(qlog[k].at) = MinuteOf(api_log[j].decided_at)
              /\ qlog[k].skip
        /\ \E i \in DOMAIN api_log :
              /\ i > j
              /\ api_log[i].advert_id = api_log[j].advert_id
              /\ api_log[i].action = api_log[j].action

\* the first tick of the calendar minute of an instant
MinuteStart(dt) ==
    dt.date * TicksPerDay + dt.hour * TicksPerHour + dt.minute * TicksPerMinute

\* every instant of the calendar minute of an instant
SameMinute(dt) == {DateTimeOf(MinuteStart(dt) + k) : k \in 0 .. (TicksPerMinute - 1)}

\* C34: for the same rules and resources decide returns the same list at
\* every instant of one calendar minute, whatever its seconds.
C34_SameResultWithinMinute ==
    ret # NoResult =>
        \A other \in SameMinute(args.now_dt) :
            decide(other, args.campaigns, args.rules) = ret[1]

C34_Witness ==
    /\ ret # NoResult
    /\ ret[1] # << >>
    /\ MinuteStart(args.now_dt) > 0
    /\ decide(DateTimeOf(MinuteStart(args.now_dt) - 1), args.campaigns, args.rules)
           # ret[1]
    /\ \E other \in SameMinute(args.now_dt) : other.second # args.now_dt.second

\* the candidates of cs that no candidate beats on (priority, rule name)
TopOf(cs) == {k \in DOMAIN cs : \A j \in DOMAIN cs : ~key_lt(cs[k], cs[j])}

\* the first of them in the order decide met them
FirstTop(cs) == cs[CHOOSE k \in TopOf(cs) : \A j \in TopOf(cs) : k <= j]

\* C35: when the best candidates of a resource tie on priority and rule
\* name, decide returns a result, and the Decision of the resource is the
\* tied candidate met first in the scan of rules in configuration order and
\* of periods in their listed order.
C35_FirstMetWinsTie ==
    ret # NoResult =>
        \A c \in Range(args.campaigns) :
            LET cs == candidates(args.now_dt, c, args.rules)
            IN  cs # << >> =>
                    /\ \E d \in Range(ret[1]) : d = FirstTop(cs)
                    /\ \A d \in Range(ret[1]) :
                          d.advert_id = c.advert_id => d = FirstTop(cs)

\* two rules of one name and priority tie, with different actions
C35_Witness ==
    /\ ret # NoResult
    /\ Len(args.rules) = 2
    /\ args.rules[1].name = args.rules[2].name
    /\ args.rules[1].priority = args.rules[2].priority
    /\ Len(args.rules[1].periods) = 1
    /\ Len(args.rules[2].periods) = 1
    /\ Len(args.campaigns) = 1
    /\ LET cs == candidates(args.now_dt, args.campaigns[1], args.rules)
       IN  /\ Len(cs) = 2
           /\ cs[1].desired # cs[2].desired
           /\ ret[1] = <<cs[1]>>

\* two overlapping periods of one rule tie
C35_WitnessOneRule ==
    /\ ret # NoResult
    /\ Len(args.rules) = 1
    /\ Len(args.campaigns) = 1
    /\ LET cs == candidates(args.now_dt, args.campaigns[1], args.rules)
       IN  /\ Len(cs) = 2
           /\ cs[1].desired # cs[2].desired
           /\ ret[1] = <<cs[1]>>

\* the records of a message in the log
Logged(message) == {k \in DOMAIN log : log[k].message = message}

\* C36: a dry run keeps last_applied as a live run does: every decision is
\* put to the tracker, the map holds the latest dispatch answer of each
\* resource, an intended action is reported once for a resource and minute,
\* and a repeated poll in the minute is answered skip and not reported.
C36_DryRunTracksLikeLive ==
    opts.dry_run =>
        /\ C30_KeysAreDispatched
        /\ \A i, j \in DOMAIN qlog :
              /\ i < j
              /\ qlog[i].advert_id = qlog[j].advert_id
              /\ qlog[i].desired = qlog[j].desired
              /\ MinuteOf(qlog[i].at) = MinuteOf(qlog[j].at)
              => qlog[j].skip
        /\ Cardinality(Logged("rule hit")) =
               Cardinality({k \in DOMAIN qlog : ~qlog[k].skip})
        /\ Cardinality(Logged("idempotent skip")) =
               Cardinality({k \in DOMAIN qlog : qlog[k].skip})

C36_Witness ==
    /\ opts.dry_run
    /\ \E i, j, k \in DOMAIN qlog :
          /\ i < j /\ j < k
          /\ qlog[i].advert_id = qlog[j].advert_id /\ qlog[j].advert_id = qlog[k].advert_id
          /\ qlog[i].desired = qlog[j].desired /\ qlog[j].desired = qlog[k].desired
          /\ ~qlog[i].skip /\ qlog[j].skip /\ ~qlog[k].skip
    /\ api_log = << >>

(***************************************************************************)
(* Target matching on its own: _targets_match for every pair of a campaign *)
(* and a target out of two lists, with target fields that are missing      *)
(* (None), empty or filled, and a type that is none of the three.          *)
(***************************************************************************)
TargetCampaigns ==
    <<CampaignMeta(1), CampaignMeta(2),
      [advert_id |-> 1, name |-> <<1>>, tags |-> <<7>>],
      [advert_id |-> 2, name |-> <<1, 2>>, tags |-> <<7, 8>>],
      [advert_id |-> 3, name |-> <<2, 1>>, tags |-> <<9>>],
      [advert_id |-> 3, name |-> << >>, tags |-> <<8>>]>>

TargetSpecs ==
    <<[type |-> "ids", ids |-> None, name_prefix |-> None, tags |-> None],
      [type |-> "ids", ids |-> << >>, name_prefix |-> <<1>>, tags |-> <<7>>],
      IdsTarget(<<1>>), IdsTarget(<<3, 1>>),
      [type |-> "name_prefix", ids |-> None, name_prefix |-> None, tags |-> None],
      [type |-> "name_prefix", ids |-> <<1>>, name_prefix |-> << >>, tags |-> None],
      [type |-> "name_prefix", ids |-> None, name_prefix |-> <<1>>, tags |-> None],
      [type |-> "name_prefix", ids |-> None, name_prefix |-> <<1, 2>>, tags |-> None],
      [type |-> "name_prefix", ids |-> None, name_prefix |-> <<2>>, tags |-> None],
      [type |-> "tags", ids |-> <<1>>, name_prefix |-> None, tags |-> None],
      [type |-> "tags", ids |-> None, name_prefix |-> None, tags |-> << >>],
      [type |-> "tags", ids |-> None, name_prefix |-> None, tags |-> <<7>>],
      [type |-> "tags", ids |-> None, name_prefix |-> None, tags |-> <<8, 9>>],
      [type |-> "sku", ids |-> <<1, 2, 3>>, name_prefix |-> << >>, tags |-> <<7, 8, 9>>]>>

InitTargets ==
    /\ args \in [c : DOMAIN TargetCampaigns, t : DOMAIN TargetSpecs]
    /\ ret = NoResult
    /\ clock = 0
    /\ NoTracker
    /\ NoLimit
    /\ NoScheduler
    /\ NoRequest

CallTargetsMatch ==
    /\ ret = NoResult
    /\ ret' = <<_targets_match(TargetCampaigns[args.c], TargetSpecs[args.t])>>
    /\ UNCHANGED <<args, clock, reqVars, trackerVars, limVars, schedVars>>

SpecTargets == InitTargets /\ [][CallTargetsMatch]_vars

\* the field is there and holds at least one item
Filled(field) == field # None /\ field # << >>

\* C38: an ids target matches the resources whose id it lists; a tags
\* target those that share a tag with it, none when its tags are missing or
\* empty; a name_prefix target those whose name begins with the prefix,
\* every resource when the prefix is missing or empty; a target of any
\* other type none.
C38_TargetsMatch ==
    ret # NoResult =>
        LET c == TargetCampaigns[args.c]
            t == TargetSpecs[args.t]
        IN  IF t.type = "ids"
            THEN ret[1] <=> /\ Filled(t.ids)
                            /\ \E i \in DOMAIN t.ids : t.ids[i] = c.advert_id
            ELSE IF t.type = "tags"
            THEN ret[1] <=> /\ Filled(t.tags)
                            /\ \E i \in DOMAIN t.tags, j \in DOMAIN c.tags :
                                  t.tags[i] = c.tags[j]
            ELSE IF t.type = "name_prefix"
            THEN IF ~Filled(t.name_prefix)
                 THEN ret[1]
                 ELSE ret[1] <=> /\ Len(t.name_prefix) <= Len(c.name)
                                 /\ SubSeq(c.name, 1, Len(t.name_prefix)) = t.name_prefix
            ELSE ~ret[1]

\* a resource without a name matched by a name_prefix target without prefix
C38_Witness ==
    /\ ret = <<TRUE>>
    /\ TargetSpecs[args.t].type = "name_prefix"
    /\ TargetSpecs[args.t].name_prefix = None
    /\ TargetCampaigns[args.c].name = << >>

\* the second a limiter has on record
stored_second(l) ==
    IF l.kind = "WBClient" THEN int_seconds(l.last_ts) ELSE l.current_second

C39_CounterInRange ==
    /\ per_second_limit(lim) >= 1
    /\ lim.requests_in_current_second \in 0 .. per_second_limit(lim)
    /\ (\E k \in DOMAIN calls : calls[k].admitted # NotYet) =>
          lim.requests_in_current_second >= 1

\* a step that admits a call: the counter ends between 1 and the limit, and
\* at 1 when the call found a second other than the one on record
C39_Step ==
    lim' # lim =>
        /\ lim'.requests_in_current_second \in 1 .. per_second_limit(lim')
        /\ int_seconds(calls'[Len(calls')].entered) # stored_second(lim) =>
              lim'.requests_in_current_second = 1

\* C39: the scheduler client's limit is at least 1 whatever was configured;
\* after every admission the counter of the current second is between 1 and
\* the limit; an admission that finds a new second starts the count again,
\* so the counter is 1 after it.
C39_LimiterCounter == []C39_CounterInRange /\ [][C39_Step]_vars

\* a client configured with 0: one call slept into the next second, a later
\* call found a new second without sleeping
C39_Witness ==
    /\ lim.kind = "WBClient"
    /\ lim.rate_limit_per_sec = 1
    /\ lim.requests_in_current_second = 1
    /\ \E j, k \in DOMAIN calls :
          /\ j < k
          /\ calls[j].admitted > calls[j].entered
          /\ calls[k].admitted = calls[k].entered
          /\ int_seconds(calls[k].entered) > int_seconds(calls[j].admitted)

====
